---- MODULE Spec2Model ----
(***************************************************************************)
(* TypeGlot: the compile pass of TypeGlotCompiler (packages/compiler/src/  *)
(* compiler.ts) and the recompilation loop of TranslationWatcher           *)
(* (packages/compiler/src/watcher.ts), with one file per locale.           *)
(*                                                                         *)
(* A compile pass is an async function: it gives up control at every       *)
(* await, so the steps of several passes, of start(), of stop() and the    *)
(* changes of the locale files interleave.  One step of a pass is the work *)
(* between two module writes: the read and parse of the file(s) of one     *)
(* module together with the write of that module.                          *)
(***************************************************************************)
EXTENDS Naturals, Sequences, FiniteSets

\* --------------------------------------------------------- configuration
Locales      == {"en", "es"}
LocaleOrder  == <<"en", "es">>      \* the order readdir lists the files in
SourceLocale == "en"                \* config.sourceLocale
Keys         == {"a"}               \* the flattened keys a file may hold

\* What a <locale>.json holds: nothing (no such file), text that
\* parseTranslationFile rejects (no JSON, or JSON whose root is no object),
\* or an object, given by its flattened key set.
Absent    == [st |-> "absent", keys |-> {}]
Invalid   == [st |-> "invalid", keys |-> {}]
Object(K) == [st |-> "ok", keys |-> K]
Contents  == {Absent, Invalid, Object(Keys)}

OutFiles == {"messages", "index"} \cup Locales
NoFile   == [pass |-> 0, keys |-> {}, locales |-> <<>>]

\* config.filePattern: the flat layout (<locale>.json) or the namespaced
\* one (<locale>/<namespace>.json).
FlatPattern      == "{locale}.json"
NamespacePattern == "{locale}/{namespace}.json"
FilePatterns     == {FlatPattern, NamespacePattern}

\* -------------------------------------------------------------------- runs
\* A run of the watcher is given by its bounds (the calls, passes and file
\* changes it has), by config.filePattern and by the contents a file may
\* be given.
\* The recompilation loop under bursts of file changes: one start().
MaxStarts == 1      \* start() calls on the watcher
MaxStops  == 1      \* stop() calls on the watcher
MaxPasses == 4      \* compile passes (initial and event-triggered)
MaxEvents == 3      \* changes of the locale files on disk
Burst == [starts |-> MaxStarts, stops |-> MaxStops, passes |-> MaxPasses,
          events |-> MaxEvents, filePattern |-> FlatPattern,
          contents |-> Contents]

\* The life cycle of the watcher: start(), file changes, one stop().
LifeStarts == 1
LifePasses == 2
LifeEvents == 1
Life == [starts |-> LifeStarts, stops |-> 1, passes |-> LifePasses,
         events |-> LifeEvents, filePattern |-> FlatPattern,
         contents |-> Contents]

\* The watcher after stop(): one start() call (the watcher whose start()
\* completed), stop() called again, file changes before and afterwards.
StopStops  == 2
StopPasses == 2
StopEvents == 2
Stopping == [starts |-> 1, stops |-> StopStops, passes |-> StopPasses,
             events |-> StopEvents, filePattern |-> FlatPattern,
             contents |-> Contents]

\* start() called again on the watcher, with or without a stop() between
\* the two calls.
RestartStarts == 2
RestartStops  == 1
RestartPasses == 3
RestartEvents == 1
Restart == [starts |-> RestartStarts, stops |-> RestartStops,
            passes |-> RestartPasses, events |-> RestartEvents,
            filePattern |-> FlatPattern, contents |-> Contents]

\* The start of the watcher while the locale files are being edited: a
\* file may be rewritten as an object without keys.
GapStarts == 1
GapStops  == 1
GapPasses == 2
GapEvents == 1
Gap == [starts |-> GapStarts, stops |-> GapStops, passes |-> GapPasses,
        events |-> GapEvents, filePattern |-> FlatPattern,
        contents |-> Contents \cup {Object({})}]

\* The watcher of a project with the namespaced layout: every locale has
\* the one file <locale>/default.json.
Namespaced == [Life EXCEPT !.filePattern = NamespacePattern]

VARIABLES
    disk,           \* locale -> content of <localesDir>/<locale>.json
    output,         \* generated file -> the pass that wrote it last, and what
    passes,         \* the compile passes begun so far, in order of their start
    starts,         \* the start() calls made so far; call s owns handle s
    watcher,        \* this.watcher: 0 (null) or the handle it refers to
    stops,          \* stop() calls made so far
    stopsClosing,   \* ... of which those waiting for watcher.close()
    events,         \* changes of the locale files so far
    call            \* the call of a library function under study, with its
                    \* arguments and what it returned (see "library calls")

vars == <<disk, output, passes, starts, watcher, stops, stopsClosing, events,
         call>>

\* No library call is under study: the watcher runs.
NoCall == [op |-> "none"]

\* ---------------------------------------------------------------- helpers
Range(s) == {s[i] : i \in DOMAIN s}

PassIds  == DOMAIN passes
StartIds == DOMAIN starts

InFlight == {p \in PassIds : passes[p].pc # "done"}
Live     == {s \in StartIds : starts[s].handle = "live"}

\* The ids of a set of naturals, ascending.
RECURSIVE Ascending(_)
Ascending(S) ==
    IF S = {} THEN <<>>
    ELSE LET m == CHOOSE x \in S : \A y \in S : x <= y
         IN <<m>> \o Ascending(S \ {m})

\* ------------------------------------------------------------ compiler.ts
\* parseTranslationFile: the flattened keys, or the error it throws.
parseTranslationFile(c) ==
    CASE c.st = "ok"      -> [ok |-> TRUE, keys |-> c.keys, error |-> ""]
      [] c.st = "absent"  -> [ok |-> FALSE, keys |-> {}, error |-> "ENOENT"]
      [] c.st = "invalid" -> [ok |-> FALSE, keys |-> {},
                              error |-> "Invalid translation file"]

\* getLocaleInfos: one LocaleInfo per <locale>.json (or per directory
\* <locale> with its default.json), in listing order.
getLocaleInfos == SelectSeq(LocaleOrder, LAMBDA l : disk[l].st # "absent")

\* The CompileResult of a generated module.
Generated(path, keys) ==
    [success |-> TRUE, outputPath |-> path, keysCount |-> Cardinality(keys),
     errors |-> <<>>]

\* The CompileResult compile() returns when the source locale is not found.
SourceNotFound ==
    [success |-> FALSE, outputPath |-> "", keysCount |-> 0,
     errors |-> <<"Source locale not found: " \o SourceLocale>>]

\* ------------------------------------------------------------- watcher.ts
\* Mutant of Report: the catch block swallows the exception.
Report_CatchSwallows(threw) == IF threw THEN "none" ELSE "compile"

\* TranslationWatcher.compile: the callback a settled pass is reported to;
\* results go to onCompile, an exception of the pipeline goes to onError.
Report(threw) == IF threw THEN "error" ELSE "compile"

\* A pass settles: compiler.compile() returned or threw, and the watcher's
\* compile() has called the callback.
Settle(rec, threw, err) ==
    [rec EXCEPT !.pc = "done", !.threw = threw, !.error = err,
                !.report = Report(threw),
                !.afterStop = /\ rec.handle # 0
                              /\ starts[rec.handle].handle = "closed"
                              /\ stopsClosing = 0]

\* A pass begins: compile() is called and runs up to its first await.  The
\* fields during (the passes in flight when this one began) and afterStop
\* (the pass settled after its handle was closed and every stop() had
\* returned) record the history the properties speak about; the code does
\* not read them.
NewPass(ps, kind, s, h) ==
    [kind |-> kind, start |-> s, handle |-> h, pc |-> "enum",
     infos |-> <<>>, i |-> 0, results |-> <<>>, wrote |-> {},
     threw |-> FALSE, error |-> "", report |-> "none",
     during |-> {q \in DOMAIN ps : ps[q].pc # "done"}, afterStop |-> FALSE]

\* handleChange, once per handle the event is delivered to: each call begins
\* a pass of its own.
RECURSIVE handleChange(_, _)
handleChange(ps, hs) ==
    IF hs = <<>> THEN ps
    ELSE handleChange(Append(ps, NewPass(ps, "event", 0, Head(hs))), Tail(hs))

\* ------------------------------------------------- compiler.ts: compile()
\* parseLocaleFiles under the flat layout: the one file of the locale.
parseLocaleFiles(l) == parseTranslationFile(disk[l])

\* Mutant of Enumerated: compile() without the check for the source locale.
Enumerated_NoSourceCheck(rec, infos) ==
    IF Len(infos) = 0
      THEN Settle([rec EXCEPT !.infos = infos], FALSE, "")
    ELSE [rec EXCEPT !.infos = infos, !.pc = "main"]

\* compile() after getLocaleInfos: no locale, no source locale, or go on.
Enumerated(rec, infos) ==
    IF Len(infos) = 0
      THEN Settle([rec EXCEPT !.infos = infos], FALSE, "")
    ELSE IF SourceLocale \notin Range(infos)
      THEN Settle([rec EXCEPT !.infos = infos, !.results = <<SourceNotFound>>],
                  FALSE, "")
    ELSE [rec EXCEPT !.infos = infos, !.pc = "main"]

\* A module of the pass has been written.
Wrote(rec, file, keys) ==
    [rec EXCEPT !.results = Append(@, Generated(file, keys)),
                !.wrote = @ \cup {file}]

\* mkdir and getLocaleInfos.
Enumerate(p) ==
    /\ passes[p].pc = "enum"
    /\ passes' = [passes EXCEPT ![p] = Enumerated(@, getLocaleInfos)]
    /\ UNCHANGED <<disk, output, starts, watcher, stops, stopsClosing, events>>

\* parseLocaleFiles(sourceLocaleInfo) and generateMainModule.
GenerateMain(p) ==
    /\ passes[p].pc = "main"
    /\ LET t == parseLocaleFiles(SourceLocale)
       IN IF t.ok
            THEN /\ output' = [output EXCEPT !["messages"] =
                        [pass |-> p, keys |-> t.keys, locales |-> <<>>]]
                 /\ passes' = [passes EXCEPT ![p] =
                        [Wrote(@, "messages", t.keys) EXCEPT !.pc = "locale", !.i = 1]]
            ELSE /\ passes' = [passes EXCEPT ![p] = Settle(@, TRUE, t.error)]
                 /\ UNCHANGED output
    /\ UNCHANGED <<disk, starts, watcher, stops, stopsClosing, events>>

\* One turn of the loop over localeInfos: parseLocaleFiles and
\* generateLocaleModule.
GenerateLocale(p) ==
    /\ passes[p].pc = "locale"
    /\ LET l == passes[p].infos[passes[p].i]
           t == parseLocaleFiles(l)
           next == IF passes[p].i = Len(passes[p].infos) THEN "index" ELSE "locale"
       IN IF t.ok
            THEN /\ output' = [output EXCEPT ![l] =
                        [pass |-> p, keys |-> t.keys, locales |-> <<>>]]
                 /\ passes' = [passes EXCEPT ![p] =
                        [Wrote(@, l, t.keys) EXCEPT !.pc = next, !.i = @ + 1]]
            ELSE /\ passes' = [passes EXCEPT ![p] = Settle(@, TRUE, t.error)]
                 /\ UNCHANGED output
    /\ UNCHANGED <<disk, starts, watcher, stops, stopsClosing, events>>

\* generateIndexFile, and compile() returns its results.
GenerateIndex(p) ==
    /\ passes[p].pc = "index"
    /\ output' = [output EXCEPT !["index"] =
            [pass |-> p, keys |-> {}, locales |-> passes[p].infos]]
    /\ passes' = [passes EXCEPT ![p] =
            Settle([@ EXCEPT !.wrote = @ \cup {"index"}], FALSE, "")]
    /\ UNCHANGED <<disk, starts, watcher, stops, stopsClosing, events>>

\* fs.promises.writeFile rejects: the pass throws at the
\* write it had reached (the file it was about to write is read first).
WriteFails(p) ==
    /\ \/ passes[p].pc = "index"
       \/ passes[p].pc = "main" /\ parseLocaleFiles(SourceLocale).ok
       \/ passes[p].pc = "locale"
            /\ parseLocaleFiles(passes[p].infos[passes[p].i]).ok
    /\ passes' = [passes EXCEPT ![p] = Settle(@, TRUE, "EIO")]
    /\ UNCHANGED <<disk, output, starts, watcher, stops, stopsClosing, events>>

\* ----------------------------------------------- watcher.ts: start, stop
\* This call's handle is closed and no stop() is waiting for close().
Dormant(s) == starts[s].handle = "closed" /\ stopsClosing = 0

\* Four fields of a start() call record history only, and only for as long
\* as start() has been called once: stopSeen (stop() was called after this
\* start() had returned), stopEarly (stop() was called while this start()
\* was awaiting its initial compilation; kept in the runs that may call
\* start() again), idleStop (stop() was called while the handle was
\* dormant) and missed (a locale file changed while the handle was dormant).
NoHistory(st) ==
    [st EXCEPT !.stopSeen = FALSE, !.stopEarly = FALSE, !.idleStop = FALSE,
               !.missed = FALSE]

\* start() is called: the initial compilation begins.
start(B) ==
    /\ Len(starts) < B.starts
    /\ Len(passes) < B.passes
    /\ starts' = Append([s \in StartIds |-> NoHistory(starts[s])],
            [pc |-> "compiling", pass |-> Len(passes) + 1, handle |-> "none",
             stopSeen |-> FALSE, stopEarly |-> FALSE, idleStop |-> FALSE,
             missed |-> FALSE])
    /\ passes' = Append(passes, NewPass(passes, "initial", Len(starts) + 1, 0))
    /\ UNCHANGED <<disk, output, watcher, stops, stopsClosing, events>>

\* Mutant of InitialCompileSettled: start() does not await this.compile().
InitialCompileSettled_NoAwait(s) == TRUE

\* `await this.compile()` of start() has resolved.
InitialCompileSettled(s) == passes[starts[s].pass].pc = "done"

\* start() resumes: chokidar.watch, the handlers are registered, start returns.
startWatch(s) ==
    /\ starts[s].pc = "compiling"
    /\ InitialCompileSettled(s)
    /\ starts' = [starts EXCEPT ![s] = [@ EXCEPT !.pc = "returned", !.handle = "live"]]
    /\ watcher' = s
    /\ UNCHANGED <<disk, output, passes, stops, stopsClosing, events>>

\* Mutant of stop: closing the watcher also abandons the passes in flight,
\* which settle without a report.
stop_AbortsPasses(B) ==
    /\ stops < B.stops
    /\ stops' = stops + 1
    /\ IF watcher = 0
         THEN UNCHANGED <<starts, stopsClosing, passes>>
         ELSE /\ starts' = [starts EXCEPT ![watcher].handle = "closed"]
              /\ stopsClosing' = stopsClosing + 1
              /\ passes' = [p \in PassIds |->
                    IF passes[p].pc = "done" THEN passes[p]
                    ELSE [passes[p] EXCEPT !.pc = "done"]]
    /\ UNCHANGED <<disk, output, watcher, events>>

\* stop() is called: with no watcher it returns at once; otherwise
\* watcher.close() ends the handle's events and stop() awaits it.
stop(B) ==
    /\ stops < B.stops
    /\ stops' = stops + 1
    /\ LET seen == [s \in StartIds |->
                       IF Len(starts) > 1 THEN starts[s]
                       ELSE [starts[s] EXCEPT !.stopSeen = @ \/ starts[s].pc = "returned",
                                              !.stopEarly = @ \/ (/\ B.starts > 1
                                                                   /\ starts[s].pc = "compiling"),
                                              !.idleStop = @ \/ Dormant(s)]]
       IN IF watcher = 0
            THEN /\ starts' = seen
                 /\ UNCHANGED stopsClosing
            ELSE /\ starts' = [seen EXCEPT ![watcher].handle = "closed"]
                 /\ stopsClosing' = stopsClosing + 1
    /\ UNCHANGED <<disk, output, passes, watcher, events>>

\* Mutant of stopResume: stop() returns without clearing this.watcher.
stopResume_KeepsWatcher ==
    /\ stopsClosing > 0
    /\ stopsClosing' = stopsClosing - 1
    /\ UNCHANGED <<disk, output, passes, starts, watcher, stops, events>>

\* stop() resumes after close(): this.watcher = null, stop returns.
stopResume ==
    /\ stopsClosing > 0
    /\ watcher' = 0
    /\ stopsClosing' = stopsClosing - 1
    /\ UNCHANGED <<disk, output, passes, starts, stops, events>>

\* ------------------------------------------------------------ environment
\* chokidar.watch(path.join(localesDir, '*.json')): the glob, as the path
\* segments below localesDir; a segment is a name and an extension.
WatchGlob == <<[name |-> "*", ext |-> ".json"]>>

\* The path of the file of locale l below localesDir.
LocaleFile(filePattern, l) ==
    IF filePattern = NamespacePattern
    THEN <<[name |-> l, ext |-> ""], [name |-> "default", ext |-> ".json"]>>
    ELSE <<[name |-> l, ext |-> ".json"]>>

\* The glob matches the path: segment by segment, * standing for any name
\* and for no path separator.
Matches(glob, path) ==
    /\ Len(path) = Len(glob)
    /\ \A i \in DOMAIN glob :
          /\ glob[i].name \in {"*", path[i].name}
          /\ glob[i].ext = path[i].ext

\* The handles that emit an event for the path: the live ones, if the
\* path is watched.
Emitting(path) == IF Matches(WatchGlob, path) THEN Ascending(Live) ELSE <<>>

\* A locale file is added, changed or removed; every live handle that
\* watches it emits the event and its handler calls handleChange.
FsEvent(B, l, c) ==
    /\ events < B.events
    /\ c.st = "absent" => disk[l].st # "absent"
    /\ Len(passes) + Len(Emitting(LocaleFile(B.filePattern, l))) <= B.passes
    /\ disk' = [disk EXCEPT ![l] = c]
    /\ events' = events + 1
    /\ passes' = handleChange(passes, Emitting(LocaleFile(B.filePattern, l)))
    /\ starts' = [s \in StartIds |->
            IF Len(starts) > 1 THEN starts[s]
            ELSE [starts[s] EXCEPT !.missed = @ \/ Dormant(s)]]
    /\ UNCHANGED <<output, watcher, stops, stopsClosing>>

Init ==
    /\ disk \in [Locales -> {Object(Keys)}]
    /\ output = [f \in OutFiles |-> NoFile]
    /\ passes = <<>>
    /\ starts = <<>>
    /\ watcher = 0
    /\ stops = 0
    /\ stopsClosing = 0
    /\ events = 0
    /\ call = NoCall

\* The steps of the program and of its environment, within the bounds B.
Next(B) ==
    \/ start(B) /\ UNCHANGED call
    \/ \E s \in StartIds : startWatch(s) /\ UNCHANGED call
    \/ stop(B) /\ UNCHANGED call
    \/ stopResume /\ UNCHANGED call
    \/ \E l \in Locales, c \in B.contents : FsEvent(B, l, c) /\ UNCHANGED call
    \/ \E p \in PassIds : Enumerate(p) /\ UNCHANGED call
    \/ \E p \in PassIds : GenerateMain(p) /\ UNCHANGED call
    \/ \E p \in PassIds : GenerateLocale(p) /\ UNCHANGED call
    \/ \E p \in PassIds : GenerateIndex(p) /\ UNCHANGED call
    \/ \E p \in PassIds : WriteFails(p) /\ UNCHANGED call

Spec == Init /\ [][Next(Burst)]_vars

SpecLife == Init /\ [][Next(Life)]_vars

SpecStop == Init /\ [][Next(Stopping)]_vars

SpecNamespaced == Init /\ [][Next(Namespaced)]_vars

SpecRestart == Init /\ [][Next(Restart)]_vars

SpecGap == Init /\ [][Next(Gap)]_vars

\* ------------------------------------------------------------ properties
Settled == {p \in PassIds : passes[p].pc = "done"}

\* The modules a pass over the locales of infos generates.
ModulesOf(infos) == {"messages", "index"} \cup Range(infos)

\* The pass threw because a locale file could not be read or parsed.
ParseFailed(p) ==
    passes[p].threw /\ passes[p].error \in {"ENOENT", "Invalid translation file"}

\* C1: at most one compile pass is in flight at any moment.
C1_SingleFlight == Cardinality(InFlight) <= 1

\* C2: the events that arrive while a pass is in flight trigger one
\* additional pass together, not one pass each.
C2_Coalesced ==
    \A p \in PassIds :
        Cardinality({q \in PassIds : /\ passes[q].kind = "event"
                                     /\ p \in passes[q].during}) <= 1

\* C3: whenever no pass is in flight, messages.ts, index.ts and the module
\* of every locale the index lists were written by one and the same pass.
C3_OnePassWroteAll ==
    InFlight = {} =>
        /\ output["messages"].pass = output["index"].pass
        /\ \A l \in Range(output["index"].locales) :
                output[l].pass = output["index"].pass

\* C4: a pass that meets a locale file it cannot read or parse still returns
\* results (reported to onCompile), one for messages.ts and one per
\* enumerated locale: success=false with an error for that locale.
C4_BadLocaleIsAResult ==
    \A p \in Settled :
        ParseFailed(p) =>
            /\ passes[p].report = "compile"
            /\ Len(passes[p].results) = Len(passes[p].infos) + 1
            /\ \E i \in DOMAIN passes[p].results :
                    /\ ~passes[p].results[i].success
                    /\ passes[p].results[i].errors # <<>>

\* C5: a pass that enumerates at least one locale but not the source locale
\* returns exactly one result, success=false, keysCount=0, its error naming
\* the source locale, and writes no file.
C5_MissingSourceLocale ==
    \A p \in Settled :
        (passes[p].infos # <<>> /\ SourceLocale \notin Range(passes[p].infos)) =>
            /\ ~passes[p].threw
            /\ passes[p].report = "compile"
            /\ Len(passes[p].results) = 1
            /\ passes[p].results[1].success = FALSE
            /\ passes[p].results[1].keysCount = 0
            /\ passes[p].results[1].errors = <<"Source locale not found: en">>
            /\ passes[p].wrote = {}
            /\ \A f \in OutFiles : output[f].pass # p

\* C5 witness: a pass has settled that enumerated es but not en.
C5_Witness ==
    \E p \in Settled :
        passes[p].infos # <<>> /\ SourceLocale \notin Range(passes[p].infos)

\* C6: a settled pass has written all of its modules or none of them.
C6_AllOrNothing ==
    \A p \in Settled :
        passes[p].wrote = {} \/ passes[p].wrote = ModulesOf(passes[p].infos)

\* The passes that had thrown before pass q began.
FailedBefore(q) ==
    {p \in Settled : p < q /\ passes[p].threw /\ p \notin passes[q].during}

\* A step in which a locale file changes.
FileChanges == events' # events

\* C7: a pass that throws is reported to onError and not to onCompile; the
\* step in which it throws leaves the watch handles and this.watcher as they
\* were; and every change of a locale file begins one pass per live handle,
\* however many passes have thrown before.
C7_ErrorsDoNotStopTheWatch ==
    [][/\ \A p \in Settled' : passes'[p].threw => passes'[p].report = "error"
       /\ (\E p \in InFlight : passes'[p].pc = "done" /\ passes'[p].threw) =>
              (starts' = starts /\ watcher' = watcher)
       /\ FileChanges =>
              /\ Len(passes') = Len(passes) + Cardinality(Live)
              /\ \A q \in (DOMAIN passes') \ PassIds :
                     passes'[q].kind = "event" /\ passes'[q].pc = "enum"
      ]_vars

\* C7 witness: after a pass has thrown and been reported to onError, a change
\* of a locale file has begun another pass, on a handle that is still live.
C7_Witness ==
    \E q \in PassIds :
        /\ passes[q].kind = "event"
        /\ FailedBefore(q) # {}
        /\ \A p \in FailedBefore(q) : passes[p].report = "error"
        /\ starts[passes[q].handle].handle = "live"

\* A step of stop(): the call, or its return after close().
StopSteps == stops' # stops \/ stopsClosing' # stopsClosing

\* C8: no step of stop() changes a pass; a pass in flight can take its next
\* step whatever stop() has done; every settled pass has been reported to
\* onCompile or to onError.
C8_StopLetsThePassFinish ==
    /\ [](\A p \in Settled : passes[p].report \in {"compile", "error"})
    /\ [](\A p \in InFlight :
            ENABLED (\/ Enumerate(p) \/ GenerateMain(p)
                     \/ GenerateLocale(p) \/ GenerateIndex(p)))
    /\ [][StopSteps => passes' = passes]_vars

\* C8 witness: an event-triggered pass was reported after the handle that
\* delivered its event had been closed and every stop() had returned.
C8_Witness ==
    \E p \in Settled :
        /\ passes[p].kind = "event"
        /\ passes[p].afterStop
        /\ passes[p].report \in {"compile", "error"}

\* The state of every watch handle, and of the start() call that owns it.
Handles == [s \in StartIds |-> <<starts[s].pc, starts[s].handle>>]

\* start() was called once and has returned, stop() was called after that,
\* and every stop() call has returned.
StoppedAfterStart ==
    /\ Len(starts) = 1
    /\ starts[1].pc = "returned"
    /\ starts[1].stopSeen
    /\ stopsClosing = 0

\* C9: once stop() has returned on a watcher whose start() had returned, the
\* handle is closed and this.watcher is null; from then on (until start() is
\* called again) no change of a locale file begins a pass, and another
\* stop() changes nothing but the count of calls.
C9_DormantAfterStop ==
    /\ [](StoppedAfterStart =>
            /\ watcher = 0
            /\ starts[1].handle = "closed"
            /\ Live = {})
    /\ [][(StoppedAfterStart /\ StoppedAfterStart') =>
            /\ Len(passes') = Len(passes)
            /\ (stops' # stops =>
                    /\ Handles' = Handles
                    /\ UNCHANGED <<disk, output, passes, watcher,
                                   stopsClosing, events>>)
         ]_vars

\* C9 witness: after stop() had returned, a locale file changed and stop()
\* was called again, and the only pass ever begun is the initial one.
C9_Witness ==
    /\ StoppedAfterStart
    /\ starts[1].missed
    /\ starts[1].idleStop
    /\ Len(passes) = 1

\* C10: a watch handle exists only when the initial pass of the start() that
\* installed it has settled and been reported; no event-triggered pass began
\* while the initial pass of the start() that installed its handle was in
\* flight; a start() that has returned has installed its handle, also when
\* its initial pass threw; a start() whose initial pass has settled can go on.
C10_InitialPassThenWatch ==
    /\ \A s \in StartIds :
          /\ starts[s].handle # "none" =>
                /\ passes[starts[s].pass].pc = "done"
                /\ passes[starts[s].pass].report \in {"compile", "error"}
          /\ starts[s].pc = "returned" => starts[s].handle # "none"
          /\ (starts[s].pc = "compiling" /\ passes[starts[s].pass].pc = "done")
                => ENABLED startWatch(s)
    /\ \A q \in PassIds :
          passes[q].kind = "event" =>
              /\ passes[q].handle \in StartIds
              /\ starts[passes[q].handle].pass < q
              /\ starts[passes[q].handle].pass \notin passes[q].during

\* C10 witness: start() has returned and its handle is live although its
\* initial pass threw, and an event-triggered pass has begun on that handle.
C10_Witness ==
    \E q \in PassIds :
        /\ passes[q].kind = "event"
        /\ starts[passes[q].handle].pc = "returned"
        /\ passes[starts[passes[q].handle].pass].threw
        /\ passes[starts[passes[q].handle].pass].report = "error"

\* =========================================================== library calls
\* The functions of packages/core and packages/compiler that take their
\* whole input as arguments (a workspace, a project root, the files of a
\* locale).  A call is one step: the variable call records the arguments and
\* what the function returned; the watcher is not running.
watcherVars ==
    <<disk, output, passes, starts, watcher, stops, stopsClosing, events>>

\* ------------------------------------------ core: project-discovery.ts
MaxConfigFiles == 3     \* configuration files present in the workspace

CONFIG_FILE_NAMES ==
    <<"typeglot.config.json", "typeglot.config.js", ".typeglotrc">>

\* The directories of the workspace, as the segments of their path relative
\* to the workspace root (<<>> is the root itself).
Dirs == {<<>>, <<"apps">>, <<"apps", "docs">>}

\* What a configuration file holds: a valid configuration, a file readFile
\* fails on, text that is no JSON, JSON the schema rejects.
ConfigTexts == {"valid", "unreadable", "not json", "bad schema"}

\* A configuration file is a directory and an index into CONFIG_FILE_NAMES.
ConfigPaths == Dirs \X DOMAIN CONFIG_FILE_NAMES

\* The orders in which glob may yield the directories of its matches.
DirOrders ==
    {o \in [1..Cardinality(Dirs) -> Dirs] : \A d \in Dirs : \E i \in DOMAIN o : o[i] = d}

\* glob('**/<name>'): the matching files, directories in the order o.
glob(n, ws, o) ==
    LET dirs == SelectSeq(o, LAMBDA d : <<d, n>> \in DOMAIN ws)
    IN  [i \in DOMAIN dirs |-> <<dirs[i], n>>]

\* readFile, JSON.parse and TypeGlotConfigSchema.parse of the try block:
\* TRUE when one of them throws.
ConfigThrows(text) == text # "valid"

\* Mutant of Caught: no try/catch around the body of the loop.
Caught_Rethrows(text) == FALSE

\* The catch block of the loop: an exception of the body is caught (and a
\* warning printed).
Caught(text) == TRUE

\* id = relativePath || 'root', as the segments id.split('/') gives.
ProjectId(dir) == IF dir = <<>> THEN <<"root">> ELSE dir

DiscoveredProject(configPath) ==
    [id |-> ProjectId(configPath[1]), path |-> configPath[1],
     configPath |-> configPath]

\* projects.sort((a, b) => depth(a) - depth(b)): Array.prototype.sort is
\* stable, so projects of one depth keep the order they were pushed in.
RECURSIVE SortByDepth(_)
SortByDepth(ps) ==
    IF ps = <<>> THEN <<>>
    ELSE LET sorted == SortByDepth(SubSeq(ps, 1, Len(ps) - 1))
             x      == ps[Len(ps)]
             keep   == SelectSeq(sorted, LAMBDA p : Len(p.id) <= Len(x.id))
             after  == SelectSeq(sorted, LAMBDA p : Len(p.id) > Len(x.id))
         IN  keep \o <<x>> \o after

\* The two loops of discoverProjects over the matches ms, from match i on:
\* the projects pushed, or the exception that leaves the function.
RECURSIVE PushProjects(_, _, _)
PushProjects(ms, ws, i) ==
    IF i > Len(ms) THEN [threw |-> FALSE, projects |-> <<>>]
    ELSE IF ConfigThrows(ws[ms[i]])
         THEN IF Caught(ws[ms[i]]) THEN PushProjects(ms, ws, i + 1)
              ELSE [threw |-> TRUE, projects |-> <<>>]
         ELSE LET rest == PushProjects(ms, ws, i + 1)
              IN  [threw |-> rest.threw,
                   projects |-> IF rest.threw THEN <<>>
                                ELSE <<DiscoveredProject(ms[i])>> \o rest.projects]

discoverProjects(ws, o) ==
    LET ms     == glob(1, ws, o) \o glob(2, ws, o) \o glob(3, ws, o)
        pushed == PushProjects(ms, ws, 1)
    IN  [threw |-> pushed.threw, projects |-> SortByDepth(pushed.projects)]

\* getDefaultProject: projects[0] || null.
getDefaultProject(ws, o) ==
    LET ps == discoverProjects(ws, o).projects
    IN  IF ps = <<>> THEN [id |-> <<>>] ELSE ps[1]

\* The workspaces: up to MaxConfigFiles configuration files.
Workspaces ==
    UNION {[S -> ConfigTexts] :
             S \in {T \in SUBSET ConfigPaths : Cardinality(T) <= MaxConfigFiles}}

Discover ==
    /\ call = NoCall
    /\ \E ws \in Workspaces, o \in DirOrders :
         call' = [op |-> "discoverProjects", ws |-> ws, order |-> o,
                  out |-> discoverProjects(ws, o),
                  default |-> getDefaultProject(ws, o)]
    /\ UNCHANGED watcherVars

\* ----------------------------------------------- core: config-loader.ts
\* The fields of TypeGlotConfigSchema; ai is the optional one.
RequiredFields ==
    {"sourceLocale", "targetLocales", "localesDir", "outputDir", "include",
     "exclude", "interpolation", "filePattern"}
ConfigFields == RequiredFields \cup {"ai"}

\* The .default(...) of each field of TypeGlotConfigSchema.
SchemaDefaults ==
    [sourceLocale  |-> "en",
     targetLocales |-> <<>>,
     localesDir    |-> "./locales",
     outputDir     |-> "./src/generated/i18n",
     include       |-> <<"src/**/*.{ts,tsx,js,jsx}">>,
     exclude       |-> <<"node_modules", "dist">>,
     interpolation |-> "single",
     filePattern   |-> "{locale}.json"]

\* DEFAULT_CONFIG of defaults.ts.
DEFAULT_CONFIG ==
    [sourceLocale  |-> "en",
     targetLocales |-> <<>>,
     localesDir    |-> "./locales",
     outputDir     |-> "./src/generated/i18n",
     include       |-> <<"src/**/*.{ts,tsx,js,jsx}">>,
     exclude       |-> <<"node_modules", "dist">>]

\* A value of the right type for each field, other than its default.
GivenValues ==
    [sourceLocale  |-> "sv",
     targetLocales |-> <<"de">>,
     localesDir    |-> "./i18n",
     outputDir     |-> "./out",
     include       |-> <<"app/**/*.ts">>,
     exclude       |-> <<"build">>,
     interpolation |-> "double",
     filePattern   |-> "{locale}/{namespace}.json",
     ai            |-> [provider |-> "openai"]]

\* A field of a JSON object: a value of the type the schema asks for, or a
\* value of another type (a number for a string, an unknown enum member).
Valid(f) == [valid |-> TRUE, v |-> GivenValues[f]]
Wrong(f) == [valid |-> FALSE, v |-> GivenValues[f]]

\* The JSON objects a configuration file may hold: any set of fields given,
\* or one field of the wrong type.
RawConfigs ==
    {[f \in S |-> Valid(f)] : S \in SUBSET ConfigFields}
        \cup {[f \in {g} |-> Wrong(g)] : g \in ConfigFields}

\* What a configuration file of the project root may be: not there, text
\* that is no JSON, or a JSON object.
NoSuchFile == [st |-> "absent"]
NotJson    == [st |-> "not json"]
JsonFile(raw) == [st |-> "json", raw |-> raw]

\* TypeGlotConfigSchema.parse: throws on a field of the wrong type, else
\* the given fields with every omitted required field at its default.
SchemaParse(raw) ==
    IF \E f \in DOMAIN raw : ~raw[f].valid
    THEN [threw |-> TRUE, config |-> <<>>]
    ELSE [threw |-> FALSE,
          config |-> [f \in RequiredFields \cup DOMAIN raw |->
                        IF f \in DOMAIN raw THEN raw[f].v ELSE SchemaDefaults[f]]]

validateConfig(raw) == SchemaParse(raw)

\* loadConfig from candidate n on: the first file that exists is read,
\* parsed and validated; with no file, DEFAULT_CONFIG is returned.
RECURSIVE loadConfig_from(_, _)
loadConfig_from(root, n) ==
    IF n > Len(CONFIG_FILE_NAMES) THEN [threw |-> FALSE, config |-> DEFAULT_CONFIG]
    ELSE CASE root[n].st = "absent"   -> loadConfig_from(root, n + 1)
           [] root[n].st = "not json" -> [threw |-> TRUE, config |-> <<>>]
           [] root[n].st = "json"     -> SchemaParse(root[n].raw)

loadConfig(root) == loadConfig_from(root, 1)

\* The project roots: the first existing candidate holds anything, the
\* candidates after it are there or not.
ProjectRoots ==
    {[n \in DOMAIN CONFIG_FILE_NAMES |-> NoSuchFile]}
        \cup {[n \in DOMAIN CONFIG_FILE_NAMES |->
                 IF n = k THEN c
                 ELSE IF n > k /\ n \in later THEN JsonFile(<<>>)
                 ELSE NoSuchFile] :
              k \in DOMAIN CONFIG_FILE_NAMES,
              c \in {NotJson} \cup {JsonFile(raw) : raw \in RawConfigs},
              later \in SUBSET DOMAIN CONFIG_FILE_NAMES}

LoadConfig ==
    /\ call = NoCall
    /\ \E root \in ProjectRoots :
         call' = [op |-> "loadConfig", root |-> root, out |-> loadConfig(root)]
    /\ UNCHANGED watcherVars


\* ------------------------------------- compiler: parser (part_000)
\* A JSON value: a string, an object (its entries in insertion order, keys
\* distinct), an array (Object.entries lists its elements under the keys
\* '0', '1', ...) or a value of another type (number, boolean, null).
Str(x)    == [t |-> "string", s |-> x, o |-> <<>>]
Obj(es)   == [t |-> "object", s |-> "", o |-> es]
OtherJson == [t |-> "other", s |-> "", o |-> <<>>]
Indexes   == <<"0", "1", "2">>
Arr(vals) == [t |-> "array", s |-> "",
              o |-> [i \in DOMAIN vals |-> [k |-> Indexes[i], val |-> vals[i]]]]

\* typeof value === 'object' && value !== null
IsObject(value) == value.t \in {"object", "array"}

\* A ParsedTranslations: a JavaScript object with string values, as the
\* sequence of its entries in insertion order.
HasKey(map, k) == \E i \in DOMAIN map : map[i].k = k
Get(map, k) == map[CHOOSE i \in DOMAIN map : map[i].k = k].v
KeysOf(map) == {map[i].k : i \in DOMAIN map}
AsMap(map) == {<<map[i].k, map[i].v>> : i \in DOMAIN map}

\* Mutant of Assign: a key that is already there keeps its value.
Assign_KeepFirst(map, k, v) ==
    IF HasKey(map, k) THEN map ELSE Append(map, [k |-> k, v |-> v])

\* map[k] = v: a new key is added at the end, a key that is already there
\* keeps its place and takes the new value.
Assign(map, k, v) ==
    IF HasKey(map, k)
    THEN [i \in DOMAIN map |-> IF map[i].k = k THEN [k |-> k, v |-> v] ELSE map[i]]
    ELSE Append(map, [k |-> k, v |-> v])

\* Object.assign(target, source).
RECURSIVE ObjectAssign(_, _)
ObjectAssign(target, source) ==
    IF source = <<>> THEN target
    ELSE ObjectAssign(Assign(target, source[1].k, source[1].v), Tail(source))

\* The loop of flattenTranslations over the entries of obj from entry i on,
\* result being what the entries before i gave.
RECURSIVE flattenEntries(_, _, _, _)
flattenEntries(obj, prefix, i, result) ==
    IF i > Len(obj) THEN result
    ELSE LET key     == obj[i].k
             value   == obj[i].val
             fullKey == IF prefix # "" THEN prefix \o "." \o key ELSE key
         IN  flattenEntries(obj, prefix, i + 1,
                CASE value.t = "string" -> Assign(result, fullKey, value.s)
                  [] IsObject(value) ->
                        ObjectAssign(result, flattenEntries(value.o, fullKey, 1, <<>>))
                  [] OTHER -> result)

flattenTranslations(obj, prefix) == flattenEntries(obj, prefix, 1, <<>>)

\* The objects with up to n entries, keys in K (each once), values in V.
ObjectsOf(K, V, n) ==
    {es \in UNION {[1..m -> [k : K, val : V]] : m \in 0..n} :
        \A i, j \in DOMAIN es : es[i].k = es[j].k => i = j}

\* The source objects flattenTranslations is called on: strings, other
\* values, arrays and objects below keys that may hold a dot themselves.
MaxEntries == 2     \* entries of a source object
JsonKeys   == {"a", "b", "a.b"}
InnerKeys  == {"b", "c"}
Leaves     == {Str("x"), Str("y"), OtherJson}
InnerObjects  == {Obj(es) : es \in ObjectsOf(InnerKeys, Leaves, MaxEntries)}
Arrays        == {Arr(<<Str("x")>>), Arr(<<OtherJson, Str("y")>>)}
SourceObjects == ObjectsOf(JsonKeys, Leaves \cup InnerObjects \cup Arrays, MaxEntries)

Flatten ==
    /\ call = NoCall
    /\ \E obj \in SourceObjects :
         call' = [op |-> "flattenTranslations", obj |-> obj,
                  out |-> flattenTranslations(obj, "")]
    /\ UNCHANGED watcherVars

SpecFlatten == Init /\ [][Flatten]_vars

\* ---------------------- compiler.ts: parseLocaleFiles on file contents
MaxFiles    == 2    \* files of one locale
MaxFileKeys == 2    \* keys of one file

\* The basenames of the files of a locale directory, and of en.json.
Namespaces == {"default", "common", "admin"}
FileKeys   == <<"a", "b", "common.b">>
FileValues == {Str("1"), Str("2")}

\* What a file holds: text that is no JSON, JSON that is no object, or an
\* object of up to MaxFileKeys keys (listed in the order of FileKeys: the
\* order of the keys inside one file is the matter of flattenTranslations).
BadText == [t |-> "not json", s |-> "", o |-> <<>>]
FileData ==
    {BadText, OtherJson}
        \cup {Obj(es) : es \in
                {o \in ObjectsOf(Range(FileKeys), FileValues, MaxFileKeys) :
                    \A i, j \in DOMAIN o : i < j =>
                        \E a, b \in DOMAIN FileKeys :
                            a < b /\ FileKeys[a] = o[i].k /\ FileKeys[b] = o[j].k}}

\* parseTranslationFile on the content of the file: JSON.parse, the check
\* of the root, flattenTranslations.
parseFileData(data) ==
    IF IsObject(data)
    THEN [threw |-> FALSE, translations |-> flattenTranslations(data.o, "")]
    ELSE [threw |-> TRUE, translations |-> <<>>]

\* Mutant of prefixedKey: the default namespace is prefixed as well.
prefixedKey_DefaultToo(namespace, key) == namespace \o "." \o key

\* prefixedKey = namespace === 'default' ? key : `${namespace}.${key}`
prefixedKey(namespace, key) ==
    IF namespace = "default" THEN key ELSE namespace \o "." \o key

\* The inner loop of parseLocaleFiles: the entries of one namespace file.
RECURSIVE mergeNamespace(_, _, _)
mergeNamespace(merged, namespace, translations) ==
    IF translations = <<>> THEN merged
    ELSE mergeNamespace(
            Assign(merged, prefixedKey(namespace, translations[1].k),
                   translations[1].v),
            namespace, Tail(translations))

\* The loop of parseLocaleFiles over the files from file i on.
RECURSIVE mergeFiles(_, _, _, _)
mergeFiles(files, filePattern, i, merged) ==
    IF i > Len(files) THEN [threw |-> FALSE, merged |-> merged]
    ELSE LET parsed == parseFileData(files[i].data)
         IN  IF parsed.threw THEN [threw |-> TRUE, merged |-> <<>>]
             ELSE mergeFiles(files, filePattern, i + 1,
                    IF filePattern = NamespacePattern
                    THEN mergeNamespace(merged, files[i].name, parsed.translations)
                    ELSE ObjectAssign(merged, parsed.translations))

\* parseLocaleFiles(localeInfo), given the files of the locale in file
\* order, each with its basename and its content.
mergeLocaleFiles(files, filePattern) == mergeFiles(files, filePattern, 1, <<>>)

\* The files of a LocaleInfo: one file under the flat layout, m .json files
\* of the locale directory (one at least) under the namespaced one.
LocaleFiles(filePattern, m) ==
    IF filePattern = FlatPattern
    THEN {<<[name |-> "en", data |-> d]>> : d \in FileData}
    ELSE {[i \in 1..m |-> [name |-> ns[i], data |-> ds[i]]] :
            ns \in {n \in [1..m -> Namespaces] :
                      \A i, j \in 1..m : n[i] = n[j] => i = j},
            ds \in [1..m -> FileData]}

ParseLocaleFiles ==
    /\ call = NoCall
    /\ \E fp \in FilePatterns, m \in 1..MaxFiles : \E fs \in LocaleFiles(fp, m) :
         call' = [op |-> "parseLocaleFiles", filePattern |-> fp, files |-> fs,
                  out |-> mergeLocaleFiles(fs, fp)]
    /\ UNCHANGED watcherVars

SpecMerge == Init /\ [][ParseLocaleFiles]_vars

\* ------------------------- compiler.ts: generateLocaleModule (the text)
\* Keys and values are sequences of characters here, and so is the text of
\* the generated module.
MaxKeyLen == 2      \* characters of a key

KeyChars == {"a", "'", "\\"}
KeyTexts == UNION {[1..n -> KeyChars] : n \in 1..MaxKeyLen}
ValueTexts == {<<>>, <<"a">>, <<"'">>, <<"\\">>, <<"\n">>}

\* value.replace(/'/g, "\\'").replace(/\n/g, '\\n')
RECURSIVE escapedValue(_)
escapedValue(value) ==
    IF value = <<>> THEN <<>>
    ELSE (CASE value[1] = "'"  -> <<"\\", "'">>
            [] value[1] = "\n" -> <<"\\", "n">>
            [] OTHER           -> <<value[1]>>) \o escapedValue(Tail(value))

\* lines.push(`  '${key}': '${escapedValue}',`)
MessageLine(key, value) ==
    <<" ", " ", "'">> \o key \o <<"'", ":", " ", "'">> \o escapedValue(value)
        \o <<"'", ",">>

\* The lines of generateLocaleData between 'export const messages = {' and
\* '} as const;', joined by newlines.
RECURSIVE MessageLines(_)
MessageLines(translations) ==
    IF translations = <<>> THEN <<>>
    ELSE MessageLine(translations[1].k, translations[1].v) \o <<"\n">>
            \o MessageLines(Tail(translations))

generateLocaleData(locale, translations) ==
    [locale |-> locale, messages |-> MessageLines(translations)]

\* generateLocaleModule: the file written and the CompileResult returned.
generateLocaleModule(locale, translations) ==
    [path |-> locale, code |-> generateLocaleData(locale, translations),
     result |-> Generated(locale, KeysOf(translations))]

\* The merged maps of a locale: no key, one key, two keys.
TextEntries == [k : KeyTexts, v : ValueTexts]
TextMaps ==
    {<<>>} \cup {<<e>> : e \in TextEntries}
           \cup {<<e, f>> : e \in TextEntries, f \in TextEntries}

GenerateLocaleModule ==
    /\ call = NoCall
    /\ \E l \in Locales, tr \in {m \in TextMaps : Cardinality(KeysOf(m)) = Len(m)} :
         call' = [op |-> "generateLocaleModule", locale |-> l, translations |-> tr,
                  out |-> generateLocaleModule(l, tr)]
    /\ UNCHANGED watcherVars

SpecGenerate == Init /\ [][GenerateLocaleModule]_vars

\* ------------------------------ compiler.ts: compile() on file contents
\* One uninterrupted compile() of a project: the configuration, the locale
\* files with their contents, and the order readdir lists the locales in.
DiskLocales   == {"en", "es", "fr"}
TargetChoices == {<<>>, <<"es">>, <<"en", "de">>}
Interpolations == {"single", "double"}
Configs ==
    [sourceLocale : {SourceLocale}, targetLocales : TargetChoices,
     filePattern : FilePatterns, interpolation : Interpolations]

\* Values that use, reorder or omit parameters.
CompileValues ==
    {Str("{name} {count}"), Str("{count} {name}"), Str("plain")}
CompileData(filePattern) ==
    IF filePattern = FlatPattern
    THEN {BadText} \cup {Obj(es) : es \in ObjectsOf({"hello", "extra"}, CompileValues, 1)}
    ELSE {BadText, Obj(<<[k |-> "hello", val |-> Str("{name} {count}")]>>)}

\* The files of locale l: none (no <l>.json, no directory <l> or no .json
\* file in it), <l>.json, or the namespace files of directory <l>.
FilesOfLocale(filePattern, l) ==
    IF filePattern = FlatPattern
    THEN {<<>>} \cup {<<[name |-> l, data |-> d]>> : d \in CompileData(filePattern)}
    ELSE {<<>>}
          \cup {<<[name |-> n, data |-> d]>> :
                  n \in {"default", "common"}, d \in CompileData(filePattern)}
          \cup {<<[name |-> "default", data |-> d], [name |-> "common", data |-> f]>> :
                  d \in CompileData(filePattern), f \in CompileData(filePattern)}

Trees(filePattern) ==
    {t \in [DiskLocales -> UNION {FilesOfLocale(filePattern, l) : l \in DiskLocales}] :
        \A l \in DiskLocales : t[l] \in FilesOfLocale(filePattern, l)}

ListingOrders ==
    {o \in [1..Cardinality(DiskLocales) -> DiskLocales] :
        \A l \in DiskLocales : \E i \in DOMAIN o : o[i] = l}

\* Mutant of localeInfosOf: the locales are those of the configuration.
localeInfosOf_FromConfig(config, tree, order) ==
    LET listed == SelectSeq(order, LAMBDA l :
                     /\ tree[l] # <<>>
                     /\ \/ l = config.sourceLocale
                        \/ \E i \in DOMAIN config.targetLocales : config.targetLocales[i] = l)
    IN  [i \in DOMAIN listed |-> [locale |-> listed[i], files |-> tree[listed[i]]]]

\* getLocaleInfos: one LocaleInfo per <locale>.json, or per locale directory
\* with at least one .json file, in listing order.
localeInfosOf(config, tree, order) ==
    LET listed == SelectSeq(order, LAMBDA l : tree[l] # <<>>)
    IN  [i \in DOMAIN listed |-> [locale |-> listed[i], files |-> tree[listed[i]]]]

\* Mutant of sourceLocaleInfo: the first LocaleInfo is taken for the source.
sourceLocaleInfo_First(config, infos) == {1} \cap DOMAIN infos

\* localeInfos.find((l) => l.locale === sourceLocale): the index found.
sourceLocaleInfo(config, infos) ==
    LET found == {i \in DOMAIN infos : infos[i].locale = config.sourceLocale}
    IN  IF found = {} THEN {} ELSE {CHOOSE i \in found : \A j \in found : i <= j}

\* generateTypedFunctions(translations, locale, {interpolation}): the text
\* of messages.ts, one function per key, given by what it is generated from.
generateTypedFunctions(translations, locale, options) ==
    [locale |-> locale, interpolation |-> options.interpolation,
     functions |-> translations]

\* Mutant of generateMainModule: the result of messages.ts counts no key.
generateMainModule_NoKeys(config, translations) ==
    [path |-> "messages",
     code |-> generateTypedFunctions(translations, config.sourceLocale,
                                     [interpolation |-> config.interpolation]),
     result |-> Generated("messages", {})]

\* generateMainModule: messages.ts and its CompileResult.
generateMainModule(config, translations) ==
    [path |-> "messages",
     code |-> generateTypedFunctions(translations, config.sourceLocale,
                                     [interpolation |-> config.interpolation]),
     result |-> Generated("messages", KeysOf(translations))]

\* The <locale>.ts of a pass, given by what generateLocaleData is called on.
localeModule(locale, translations) ==
    [path |-> locale, code |-> [locale |-> locale, messages |-> translations],
     result |-> Generated(locale, KeysOf(translations))]

\* generateIndexFile: one re-export per locale and the availableLocales list.
generateIndexFile(locales) ==
    [path |-> "index",
     code |-> [exports |-> locales, availableLocales |-> locales]]

File(m) == [path |-> m.path, code |-> m.code]

\* The loop of compile() over localeInfos from LocaleInfo i on: the modules
\* written and the results pushed, or the exception of a file that does
\* not parse.
RECURSIVE compileLocales(_, _, _, _, _)
compileLocales(config, infos, i, written, results) ==
    IF i > Len(infos)
    THEN [threw |-> FALSE, results |-> results,
          written |-> Append(written,
                        File(generateIndexFile([j \in DOMAIN infos |-> infos[j].locale])))]
    ELSE LET parsed == mergeLocaleFiles(infos[i].files, config.filePattern)
             module == localeModule(infos[i].locale, parsed.merged)
         IN  IF parsed.threw
             THEN [threw |-> TRUE, results |-> <<>>, written |-> written]
             ELSE compileLocales(config, infos, i + 1,
                                 Append(written, File(module)),
                                 Append(results, module.result))

\* TypeGlotCompiler.compile().
compile(config, tree, order) ==
    LET infos  == localeInfosOf(config, tree, order)
        source == sourceLocaleInfo(config, infos)
    IN  IF infos = <<>>
        THEN [threw |-> FALSE, results |-> <<>>, written |-> <<>>]
        ELSE IF source = {}
        THEN [threw |-> FALSE, results |-> <<SourceNotFound>>, written |-> <<>>]
        ELSE LET src    == infos[CHOOSE i \in source : TRUE]
                 parsed == mergeLocaleFiles(src.files, config.filePattern)
                 main   == generateMainModule(config, parsed.merged)
             IN  IF parsed.threw
                 THEN [threw |-> TRUE, results |-> <<>>, written |-> <<>>]
                 ELSE compileLocales(config, infos, 1, <<File(main)>>,
                                     <<main.result>>)

Compile ==
    /\ call = NoCall
    /\ \E config \in Configs, order \in ListingOrders :
         \E tree \in Trees(config.filePattern) :
            call' = [op |-> "compile", config |-> config, tree |-> tree,
                     order |-> order, out |-> compile(config, tree, order)]
    /\ UNCHANGED watcherVars

SpecCompile == Init /\ [][Compile]_vars

\* --------------------------------- compiler: parseParameters (part_000)
\* A translation value is a sequence of characters.  The values under study
\* are made of up to MaxPieces pieces: single characters (braces, the word
\* characters a and b, a comma, a space) and whole placeholders.
MaxPieces == 3      \* pieces of a value

WordChars == {"a", "b"}
Pieces ==
    {<<"{">>, <<"}">>, <<"a">>, <<"b">>, <<",">>, <<" ">>,
     <<"{", "a", "}">>, <<"{", "b", "}">>,
     <<"{", "{", "a", "}", "}">>, <<"{", "{", "b", "}", "}">>,
     <<"{", "a", ",", " ", "b", "}">>}

RECURSIVE ValuesOf(_)
ValuesOf(n) ==
    IF n = 0 THEN {<<>>}
    ELSE LET shorter == ValuesOf(n - 1)
         IN  shorter \cup {v \o p : v \in shorter, p \in Pieces}

ParameterValues == ValuesOf(MaxPieces)

\* Mutant of getInterpolationRegex: the single-brace pattern, whatever the
\* syntax.
getInterpolationRegex_AlwaysSingle(syntax) ==
    [open |-> <<"{">>, close |-> <<"}">>]

\* getInterpolationRegex: /\{\{(\w+)\}\}/g or /\{(\w+)\}/g, as the literal
\* before the group (\w+) and the literal after it.
getInterpolationRegex(syntax) ==
    IF syntax = "double"
    THEN [open |-> <<"{", "{">>, close |-> <<"}", "}">>]
    ELSE [open |-> <<"{">>, close |-> <<"}">>]

\* The literal lit stands in text at index i.
LiteralAt(text, i, lit) ==
    /\ i + Len(lit) - 1 <= Len(text)
    /\ SubSeq(text, i, i + Len(lit) - 1) = lit

\* The run of word characters (\w) that starts at index i: its length.
RECURSIVE WordRun(_, _)
WordRun(text, i) ==
    IF i <= Len(text) /\ text[i] \in WordChars THEN 1 + WordRun(text, i + 1) ELSE 0

\* The match of the pattern that starts at index i, if there is one: the
\* longest group after which the closing literal stands.
NoMatch == [found |-> FALSE, group |-> <<>>, lastIndex |-> 0]
MatchAt(regex, text, i) ==
    LET from   == i + Len(regex.open)
        groups == {n \in 1..WordRun(text, from) : LiteralAt(text, from + n, regex.close)}
        n      == CHOOSE m \in groups : \A k \in groups : k <= m
    IN  IF LiteralAt(text, i, regex.open) /\ groups # {}
        THEN [found |-> TRUE, group |-> SubSeq(text, from, from + n - 1),
              lastIndex |-> from + n + Len(regex.close)]
        ELSE NoMatch

\* regex.exec(value) of a global pattern: the leftmost match at or after
\* lastIndex, or null.
RECURSIVE exec(_, _, _)
exec(regex, text, lastIndex) ==
    IF lastIndex > Len(text) THEN NoMatch
    ELSE IF MatchAt(regex, text, lastIndex).found THEN MatchAt(regex, text, lastIndex)
    ELSE exec(regex, text, lastIndex + 1)

\* Mutant of includes: no name counts as included.
includes_Never(params, paramName) == FALSE

\* params.includes(paramName)
includes(params, paramName) == paramName \in Range(params)

\* The while loop of parseParameters, the pattern's lastIndex being lastIndex.
RECURSIVE matchLoop(_, _, _, _)
matchLoop(regex, value, lastIndex, params) ==
    LET match == exec(regex, value, lastIndex)
    IN  IF ~match.found THEN params
        ELSE matchLoop(regex, value, match.lastIndex,
                       IF ~includes(params, match.group)
                       THEN Append(params, match.group) ELSE params)

parseParameters(value, syntax) ==
    matchLoop(getInterpolationRegex(syntax), value, 1, <<>>)

ParseParameters ==
    /\ call = NoCall
    /\ \E value \in ParameterValues, syntax \in Interpolations :
         call' = [op |-> "parseParameters", value |-> value, syntax |-> syntax,
                  out |-> parseParameters(value, syntax)]
    /\ UNCHANGED watcherVars

SpecParameters == Init /\ [][ParseParameters]_vars

\* ------------------------- compiler.ts: compileSingle on file contents
\* The path of file i of locale l: the name of the directory it lies in
\* and its basename without '.json'.
FilePath(config, tree, l, i) ==
    IF config.filePattern = NamespacePattern
    THEN [dir |-> l, base |-> tree[l][i].name]
    ELSE [dir |-> "locales", base |-> tree[l][i].name]

\* getLocaleFromPath: the parent directory's name under the namespaced
\* layout, the basename otherwise.
getLocaleFromPath(config, filePath) ==
    IF config.filePattern = NamespacePattern THEN filePath.dir ELSE filePath.base

\* compileSingle(filePath), data being the content of the file: the module
\* written, or the exception of parseTranslationFile.
compileSingle(config, filePath, data) ==
    LET locale == getLocaleFromPath(config, filePath)
        parsed == parseFileData(data)
        module == localeModule(locale, parsed.translations)
    IN  IF parsed.threw
        THEN [threw |-> TRUE, results |-> <<>>, written |-> <<>>]
        ELSE [threw |-> FALSE, results |-> <<module.result>>,
              written |-> <<File(module)>>]

\* compileSingle does not read targetLocales or interpolation.
SingleConfigs ==
    {config \in Configs :
        config.targetLocales = <<>> /\ config.interpolation = "single"}

CompileSingle ==
    /\ call = NoCall
    /\ \E config \in SingleConfigs, order \in ListingOrders :
         \E tree \in Trees(config.filePattern), l \in DiskLocales :
            \E i \in DOMAIN tree[l] :
               call' = [op |-> "compileSingle", config |-> config, tree |-> tree,
                        order |-> order, locale |-> l, file |-> i,
                        out |-> compileSingle(config, FilePath(config, tree, l, i),
                                              tree[l][i].data)]
    /\ UNCHANGED watcherVars

SpecCompileSingle == Init /\ [][CompileSingle]_vars

NextLib ==
    \/ Discover
    \/ LoadConfig

SpecLib == Init /\ [][NextLib]_vars

\* ---------------------------------------------- properties: discovery
Discovered == call.op = "discoverProjects"

ProjectIds == {call.out.projects[i].id : i \in DOMAIN call.out.projects}

\* C11: within one discoverProjects pass no two returned projects have the
\* same id, also when one directory holds several of the candidate
\* configuration files.
C11_UniqueIds ==
    Discovered =>
        \A i, j \in DOMAIN call.out.projects :
            call.out.projects[i].id = call.out.projects[j].id => i = j

\* C12: the projects come sorted ascending by depth with the root project,
\* when present, at index 0, whatever order glob yields the matches in; so
\* getDefaultProject returns the root project whenever there is one.
C12_RootFirst ==
    Discovered =>
        LET ps == call.out.projects
        IN  /\ \A i, j \in DOMAIN ps : i < j => Len(ps[i].path) <= Len(ps[j].path)
            /\ <<"root">> \in ProjectIds =>
                 /\ ps[1].id = <<"root">>
                 /\ call.default.id = <<"root">>

\* C13: a configuration file that is unreadable, no JSON or rejected by the
\* schema is skipped: discoverProjects does not throw, and every valid
\* configuration file of the workspace yields its DiscoveredProject.
C13_BadConfigSkipped ==
    Discovered =>
        /\ ~call.out.threw
        /\ \A cp \in DOMAIN call.ws :
             call.ws[cp] = "valid" =>
                \E i \in DOMAIN call.out.projects :
                    call.out.projects[i] = DiscoveredProject(cp)

\* A workspace with one file of each bad kind and valid files listed before
\* and after them.
C13_Witness ==
    /\ Discovered
    /\ \E a, b, c \in DOMAIN call.ws :
         /\ call.ws[a] = "valid" /\ call.ws[c] = "valid"
         /\ call.ws[b] # "valid"
         /\ a[2] < b[2] /\ b[2] < c[2]
    /\ Len(call.out.projects) = 2

\* ------------------------------------------ properties: configuration
\* C14: loadConfig returns a configuration in which every field other than
\* the optional ai block has a value, when the file omits fields and when
\* there is no file; the configuration returned when there is no file is
\* the one validating an empty object gives.
C14_EveryFieldHasAValue ==
    (call.op = "loadConfig" /\ ~call.out.threw) =>
        /\ RequiredFields \subseteq DOMAIN call.out.config
        /\ (\A n \in DOMAIN call.root : call.root[n] = NoSuchFile) =>
              call.out.config = validateConfig(<<>>).config

\* ------------------------------------------------ properties: parser
\* The objects that differ from obj in the order of their entries only, at
\* the top and inside the nested objects.
RECURSIVE Reordered(_)
Reordered(obj) ==
    {es \in [DOMAIN obj -> UNION {{[k |-> obj[i].k, val |-> w] :
                                     w \in IF obj[i].val.t = "object"
                                           THEN {Obj(r) : r \in Reordered(obj[i].val.o)}
                                           ELSE {obj[i].val}} : i \in DOMAIN obj}] :
        /\ \A i, j \in DOMAIN es : es[i].k = es[j].k => i = j
        /\ \A i \in DOMAIN obj : \E j \in DOMAIN es : es[j].k = obj[i].k}

\* C17: flattening does not depend on the order of the keys: every
\* reordering of a nested source object flattens to the same key-to-value
\* map, also when a literal dotted key and a nested path name one key.
C17_FlattenOrderIndependent ==
    call.op = "flattenTranslations" =>
        \A other \in Reordered(call.obj) :
            AsMap(flattenTranslations(other, "")) = AsMap(call.out)

\* The call under study is a parseLocaleFiles that returned.
Merged == call.op = "parseLocaleFiles" /\ ~call.out.threw

\* The flattened map of file i of the call.
FileMap(i) == parseFileData(call.files[i].data).translations

\* The key that key k of file i has in the merged map, as the claims state it.
MergedKey(i, k) ==
    IF call.filePattern = NamespacePattern /\ call.files[i].name # "default"
    THEN call.files[i].name \o "." \o k
    ELSE k

\* C15: under the namespaced layout every key of a file other than
\* default.json is in the merged map as '<namespace>.<key>' and every key of
\* default.json unprefixed; default.json {a:1} with common.json {b:2} merge
\* to exactly {a:1, common.b:2}.  Under the flat layout no key is prefixed.
C15_NamespacePrefix ==
    Merged =>
        /\ KeysOf(call.out.merged) =
              UNION {{MergedKey(i, k) : k \in KeysOf(FileMap(i))} : i \in DOMAIN call.files}
        /\ call.filePattern = FlatPattern =>
              AsMap(call.out.merged) = AsMap(FileMap(1))
        /\ ( /\ call.filePattern = NamespacePattern
             /\ call.files = <<[name |-> "default",
                                data |-> Obj(<<[k |-> "a", val |-> Str("1")]>>)],
                               [name |-> "common",
                                data |-> Obj(<<[k |-> "b", val |-> Str("2")]>>)]>> )
           => AsMap(call.out.merged) = {<<"a", "1">>, <<"common.b", "2">>}

\* default.json with a key beside a namespace file with a key.
C15_Witness ==
    /\ Merged
    /\ call.filePattern = NamespacePattern
    /\ Len(call.files) = 2
    /\ call.files[1].name = "default" /\ call.files[2].name = "common"
    /\ AsMap(call.out.merged) = {<<"a", "1">>, <<"common.b", "2">>}

\* The files of the call that yield the merged key mk.
Yielding(mk) ==
    {i \in DOMAIN call.files : \E k \in KeysOf(FileMap(i)) : MergedKey(i, k) = mk}

\* C16: when two files of a locale yield the same merged key, the merged
\* map holds the value of the file that is later in the file order, the
\* merge does not fail, and the other keys of both files are kept.
C16_LaterFileWins ==
    (call.op = "parseLocaleFiles"
        /\ \A i \in DOMAIN call.files : ~parseFileData(call.files[i].data).threw) =>
        /\ ~call.out.threw
        /\ \A i \in DOMAIN call.files : \A k \in KeysOf(FileMap(i)) :
              LET mk   == MergedKey(i, k)
                  last == CHOOSE j \in Yielding(mk) : \A h \in Yielding(mk) : h <= j
              IN  /\ HasKey(call.out.merged, mk)
                  /\ Get(call.out.merged, mk) =
                        Get(FileMap(last),
                            CHOOSE k2 \in KeysOf(FileMap(last)) : MergedKey(last, k2) = mk)

\* Two files yield one merged key with different values, and each has
\* another key besides.
C16_Witness ==
    /\ Merged
    /\ \E mk \in KeysOf(call.out.merged) :
         /\ Cardinality(Yielding(mk)) = 2
         /\ \E i, j \in Yielding(mk) :
              /\ i < j
              /\ \E ki \in KeysOf(FileMap(i)), kj \in KeysOf(FileMap(j)) :
                    /\ MergedKey(i, ki) = mk /\ MergedKey(j, kj) = mk
                    /\ Get(FileMap(i), ki) # Get(FileMap(j), kj)
                    /\ Get(call.out.merged, mk) = Get(FileMap(j), kj)
              /\ Cardinality(KeysOf(FileMap(i))) = 2
              /\ Cardinality(KeysOf(FileMap(j))) = 2
    /\ Cardinality(KeysOf(call.out.merged)) = 3

\* --------------------------------------------- properties: generation
\* How TypeScript reads the generated text.  A string literal in single
\* quotes from position i (after the opening quote): a backslash takes the
\* next character with it, a quote ends the literal, a line break or the end
\* of the text inside the literal is a syntax error.
RECURSIVE ReadLiteral(_, _, _)
ReadLiteral(text, i, acc) ==
    IF i > Len(text) THEN [ok |-> FALSE, str |-> <<>>, next |-> i]
    ELSE CASE text[i] = "'"  -> [ok |-> TRUE, str |-> acc, next |-> i + 1]
           [] text[i] = "\n" -> [ok |-> FALSE, str |-> <<>>, next |-> i]
           [] text[i] = "\\" ->
                IF i + 1 > Len(text) THEN [ok |-> FALSE, str |-> <<>>, next |-> i]
                ELSE ReadLiteral(text, i + 2,
                        CASE text[i + 1] = "n"  -> Append(acc, "\n")
                          [] text[i + 1] = "\n" -> acc
                          [] OTHER              -> Append(acc, text[i + 1]))
           [] OTHER -> ReadLiteral(text, i + 1, Append(acc, text[i]))

RECURSIVE SkipSpace(_, _)
SkipSpace(text, i) ==
    IF i <= Len(text) /\ text[i] \in {" ", "\n"} THEN SkipSpace(text, i + 1) ELSE i

\* The members 'key': 'value', of the object literal from position i on:
\* the keys read, or a syntax error.
RECURSIVE ReadMembers(_, _, _)
ReadMembers(text, i, keys) ==
    LET a == SkipSpace(text, i)
    IN  IF a > Len(text) THEN [ok |-> TRUE, keys |-> keys]
        ELSE IF text[a] # "'" THEN [ok |-> FALSE, keys |-> {}]
        ELSE LET key == ReadLiteral(text, a + 1, <<>>)
                 b   == SkipSpace(text, key.next + 1)
             IN  IF ~key.ok \/ key.next > Len(text) \/ text[key.next] # ":"
                    \/ b > Len(text) \/ text[b] # "'"
                 THEN [ok |-> FALSE, keys |-> {}]
                 ELSE LET value == ReadLiteral(text, b + 1, <<>>)
                      IN  IF ~value.ok \/ value.next > Len(text)
                             \/ text[value.next] # ","
                          THEN [ok |-> FALSE, keys |-> {}]
                          ELSE ReadMembers(text, value.next + 1,
                                           keys \cup {key.str})

\* The keys the generated data module exports.
ExportedKeys(code) == ReadMembers(code.messages, 1, {})

\* C18: the keys exported by a locale's generated data module are exactly
\* the keys of its merged ParsedTranslations (none added, dropped or
\* renamed), and keysCount of its CompileResult is the number of those keys.
C18_ExportedKeysAreTheMergedKeys ==
    call.op = "generateLocaleModule" =>
        /\ ExportedKeys(call.out.code) =
              [ok |-> TRUE, keys |-> KeysOf(call.translations)]
        /\ call.out.result.keysCount = Cardinality(KeysOf(call.translations))

\* ------------------------------------------- properties: compile()
\* The call under study is a compile() that wrote every module.
Compiled ==
    /\ call.op = "compile"
    /\ ~call.out.threw
    /\ call.out.written # <<>>

\* The files a pass wrote under the path p, in the order it wrote them.
WrittenAs(out, p) == SelectSeq(out.written, LAMBDA f : f.path = p)

\* The locales that have a file on disk.
OnDisk(tree) == {l \in DiskLocales : tree[l] # <<>>}

C20_MessagesFromSourceOnly ==
    call.op = "compile" =>
        \A l \in DiskLocales \ {call.config.sourceLocale} :
            \A files \in FilesOfLocale(call.config.filePattern, l) :
                WrittenAs(compile(call.config, [call.tree EXCEPT ![l] = files],
                                  call.order), "messages")
                    = WrittenAs(call.out, "messages")

\* messages.ts was written from a source value with parameters, beside a
\* target locale listed first whose value reorders them.
C20_Witness ==
    /\ call.op = "compile"
    /\ call.config.filePattern = FlatPattern
    /\ call.order[1] = "es"
    /\ call.tree["en"] = <<[name |-> "en",
                            data |-> Obj(<<[k |-> "hello", val |-> Str("{name} {count}")]>>)]>>
    /\ call.tree["es"] = <<[name |-> "es",
                            data |-> Obj(<<[k |-> "hello", val |-> Str("{count} {name}")]>>)]>>
    /\ Len(WrittenAs(call.out, "messages")) = 1
    /\ WrittenAs(call.out, "messages")[1].code.functions = <<[k |-> "hello", v |-> "{name} {count}"]>>

\* The locales compile() enumerates, in enumeration order.
EnumeratedLocales == SelectSeq(call.order, LAMBDA l : l \in OnDisk(call.tree))

\* C21: a successful compile() over n >= 1 enumerated locales returns n+1
\* results: first the one of messages.ts, whose keysCount is the number of
\* keys of the source locale's merged map, then one per enumerated locale
\* in enumeration order, each successful; index.ts has no result.
C21_OneResultPerModule ==
    Compiled =>
        LET results == call.out.results
            n       == Len(EnumeratedLocales)
            source  == mergeLocaleFiles(call.tree[call.config.sourceLocale],
                                        call.config.filePattern).merged
        IN  /\ n >= 1
            /\ Len(results) = n + 1
            /\ results[1].outputPath = "messages"
            /\ results[1].keysCount = Cardinality(KeysOf(source))
            /\ \A i \in 1..n : results[i + 1].outputPath = EnumeratedLocales[i]
            /\ \A i \in DOMAIN results :
                  results[i].success /\ results[i].outputPath # "index"

\* Three locales listed with the source locale last, whose two namespace
\* files merge to two keys.
C21_Witness ==
    /\ Compiled
    /\ call.config.filePattern = NamespacePattern
    /\ call.order = <<"fr", "es", "en">>
    /\ Len(call.tree["en"]) = 2
    /\ Len(call.out.results) = 4
    /\ call.out.results[1].keysCount = 2
    /\ call.out.results[4].outputPath = "en"

\* ------------------------------------- properties: parseParameters
Parsed == call.op = "parseParameters"

\* The words of a text: its runs of word characters, whole or in part.
Words(text) ==
    {SubSeq(text, i, j) : i \in DOMAIN text, j \in DOMAIN text} \ {<<>>}

\* The indexes where the placeholder of a name stands in the value, written
\* with the given opening and closing brackets.
PlaceholdersOf(value, open, close, name) ==
    {i \in DOMAIN value : LiteralAt(value, i, open \o name \o close)}

\* The names the value refers to in single-brace or double-brace syntax.
NamesIn(value, syntax) ==
    LET open  == IF syntax = "double" THEN <<"{", "{">> ELSE <<"{">>
        close == IF syntax = "double" THEN <<"}", "}">> ELSE <<"}">>
    IN  {w \in Words(value) :
            /\ \A i \in DOMAIN w : w[i] \in WordChars
            /\ PlaceholdersOf(value, open, close, w) # {}}

FirstPlaceholder(value, syntax, name) ==
    LET open  == IF syntax = "double" THEN <<"{", "{">> ELSE <<"{">>
        close == IF syntax = "double" THEN <<"}", "}">> ELSE <<"}">>
        at    == PlaceholdersOf(value, open, close, name)
    IN  CHOOSE i \in at : \A j \in at : i <= j

\* C22: parseParameters returns every interpolation name of the value once,
\* in the order of the first placeholder of each; a value without a
\* placeholder gives the empty list.
C22_NamesOnceInFirstOccurrenceOrder ==
    Parsed =>
        LET out   == call.out
            names == NamesIn(call.value, call.syntax)
        IN  /\ Range(out) = names
            /\ \A i, j \in DOMAIN out : out[i] = out[j] => i = j
            /\ \A i, j \in DOMAIN out : i < j =>
                  FirstPlaceholder(call.value, call.syntax, out[i])
                      < FirstPlaceholder(call.value, call.syntax, out[j])
            /\ names = {} => out = <<>>

\* {b}{a}{b}: the name b stands twice, before and after the name a.
C22_Witness ==
    /\ Parsed
    /\ call.syntax = "single"
    /\ call.value = <<"{", "b", "}", "{", "a", "}", "{", "b", "}">>
    /\ call.out = << <<"b">>, <<"a">> >>

\* Two opening braces stand side by side somewhere in the value.
HasDoubleBrace(value) == \E i \in DOMAIN value : LiteralAt(value, i, <<"{", "{">>)

\* C23: the configured syntax alone selects the pattern.  With 'double' the
\* names returned are those of the {{name}} placeholders and no other, and
\* a value whose placeholders are all single-brace gives nothing; with
\* 'single' the names returned are those of the {name} placeholders.
C23_SyntaxSelectsThePattern ==
    Parsed =>
        /\ Range(call.out) = NamesIn(call.value, call.syntax)
        /\ call.syntax = "double" =>
              /\ \A i \in DOMAIN call.out :
                    PlaceholdersOf(call.value, <<"{", "{">>, <<"}", "}">>, call.out[i]) # {}
              /\ ~HasDoubleBrace(call.value) => call.out = <<>>

\* {a}{{b}} under 'double': the single-brace name a is left out; and {a}
\* alone gives nothing.
C23_Witness ==
    /\ Parsed
    /\ call.syntax = "double"
    /\ call.value = <<"{", "a", "}", "{", "{", "b", "}", "}">>
    /\ call.out = << <<"b">> >>
    /\ parseParameters(<<"{", "a", "}">>, "double") = <<>>
    /\ NamesIn(call.value, "single") = {<<"a">>, <<"b">>}

\* The names that are followed by a comma and a type hint in the value: an
\* opening brace, the name, a comma, a space, the hint (a word), and then
\* the closing brace or the comma of what follows the hint.
HintedNames(value) ==
    {w \in Words(value) :
        /\ \A i \in DOMAIN w : w[i] \in WordChars
        /\ \E i \in DOMAIN value :
              LET hint == i + Len(w) + 3
                  n    == WordRun(value, hint)
              IN  /\ LiteralAt(value, i, <<"{">> \o w \o <<",", " ">>)
                  /\ n >= 1
                  /\ hint + n <= Len(value)
                  /\ value[hint + n] \in {"}", ","}}

\* C24: basic extraction returns the name of a parameter that is followed
\* by a comma and a type hint ({count, plural, ...}, {count, number}).
C24_HintedNameIsExtracted ==
    (Parsed /\ call.syntax = "single") =>
        \A name \in HintedNames(call.value) : name \in Range(call.out)

\* ---------------------------------- properties: flattening, value types
\* The dot-joined paths of the string leaves of obj that are reached
\* through objects only.
RECURSIVE StringLeafPaths(_, _)
StringLeafPaths(obj, prefix) ==
    UNION {LET e    == obj[i]
               path == IF prefix # "" THEN prefix \o "." \o e.k ELSE e.k
           IN  CASE e.val.t = "string" -> {path}
                 [] e.val.t = "object" -> StringLeafPaths(e.val.o, path)
                 [] OTHER -> {} : i \in DOMAIN obj}

\* C26: flattening keeps exactly the string leaves reached through nested
\* objects; numbers, booleans, null and arrays are dropped with everything
\* below them, so no flattened key has an array index as a path segment.
C26_OnlyStringLeavesOfObjects ==
    call.op = "flattenTranslations" =>
        /\ KeysOf(call.out) = StringLeafPaths(call.obj, "")
        /\ KeysOf(call.out) \cap
              {call.obj[i].k \o "." \o Indexes[j] :
                  i \in {n \in DOMAIN call.obj : call.obj[n].val.t = "array"},
                  j \in DOMAIN Indexes} = {}

\* ----------------------------------------- properties: the watched files
\* C25: while the watcher is running (a handle is live), an add, change or
\* removal of a file that contributes to a LocaleInfo begins a compile
\* pass, under the flat layout and under the namespaced one.
C25_FileChangeBeginsAPass ==
    [][(events' = events + 1 /\ Live # {}) => Len(passes') > Len(passes)]_vars

\* ------------------------------------------ properties: start and stop
\* C27: whatever the interleaving of start() and stop(), at most one watch
\* handle is live at any time, and none is live once a stop() that came
\* after start() was called has resolved and start() has returned (stop()
\* called during the initial compile included).
C27_AtMostOneHandleAndNoneAfterStop ==
    /\ Cardinality(Live) <= 1
    /\ \A s \in StartIds :
          (/\ Len(starts) = 1
           /\ starts[s].pc = "returned"
           /\ starts[s].stopSeen \/ starts[s].stopEarly
           /\ stopsClosing = 0) => Live = {}

\* ------------------------------------ properties: the output directory
\* A pass that ran alone and wrote every module, index.ts included.
Successful(p) ==
    /\ passes[p].pc = "done"
    /\ ~passes[p].threw
    /\ "index" \in passes[p].wrote
    /\ passes[p].during = {}

\* The locales whose module <locale>.ts is present in the output directory.
ModulesPresent == {l \in Locales : output[l].pass # 0}

\* C28: after any sequence of successful passes the <locale>.ts modules
\* present in the output directory are those of the locales listed in the
\* current index.ts; the module of a locale whose file was deleted is gone
\* once the pass the deletion triggered has completed.
C28_ModulesAreTheIndexedLocales ==
    (PassIds # {} /\ \A p \in PassIds : Successful(p)) =>
        ModulesPresent = Range(output["index"].locales)

\* ------------------------------- properties: changes during start()
\* start() has returned with its watch live, the initial pass wrote every
\* module and is the only pass begun so far, although a locale file has
\* changed: the change came before the watch was installed.  No step of the
\* program is enabled in such a state; only a further change of a file or a
\* call from outside makes it go on.
IdleAfterEarlyChange ==
    /\ Len(starts) = 1
    /\ starts[1].pc = "returned"
    /\ starts[1].handle = "live"
    /\ Len(passes) = 1
    /\ Successful(1)
    /\ events >= 1

\* C30: a change of a locale file made while start() runs its initial
\* compile is reflected in the generated output without a further
\* filesystem event: when the watcher has come to rest after such a change,
\* the modules hold the keys of the files on disk.
C30_NoChangeLostBeforeTheWatch ==
    (IdleAfterEarlyChange /\ \A l \in Locales : disk[l].st = "ok") =>
        /\ output["messages"].keys = disk[SourceLocale].keys
        /\ \A l \in Locales : output[l].keys = disk[l].keys

\* --------------------------------------- properties: compileSingle
\* C29: compileSingle(file) for a file of locale L writes the <L>.ts that
\* compile() writes for L from the same files, under both layouts: after a
\* compile() that wrote every module, compileSingle leaves L's module as
\* it was.
C29_CompileSingleWritesWhatCompileWrites ==
    call.op = "compileSingle" =>
        LET all == compile(call.config, call.tree, call.order)
        IN  (~all.threw /\ all.written # <<>>) =>
                /\ ~call.out.threw
                /\ call.out.written = WrittenAs(all, call.locale)
====
